---------------------------- MODULE Spec2Model ----------------------------
(***************************************************************************)
(* Model of the Bluetooth HCI bridge of android_device_brcm_rpi4           *)
(* (bluetooth/BluetoothHci.cpp): the session state machine of              *)
(* BluetoothHci::initialize / close / send and of                          *)
(* BluetoothDeathRecipient::serviceDied, run by several binder threads.    *)
(* One step of a thread is one stretch of code between two points where    *)
(* another thread can observe or change the shared fields: a critical      *)
(* section under mStateMutex is one step, and every unlocked statement     *)
(* that reads or writes a shared field is a step of its own. Statements    *)
(* that touch only the thread's own locals (argument checks, the calls     *)
(* back to the client after a nested close() returned) belong to the step  *)
(* next to them. The binder threads are interchangeable, so the state      *)
(* holds the bag of the calls in progress, one per busy thread.            *)
(***************************************************************************)
EXTENDS Integers, Sequences, FiniteSets, Bags, TLC

(* ------------------------------ bounds -------------------------------- *)
NumThreads == 2
NumCallbacks == 1
MaxPayloadLen == 1
MaxLinks == 1
MaxFrames == 2
MaxFrameLen == 2

NullCb == 0
Callbacks == 1..NumCallbacks
Payloads == UNION {[1..n -> {0}] : n \in 0..MaxPayloadLen}

(* --------------------------- program values --------------------------- *)
HalState == {"READY", "INITIALIZING", "ONE_CLIENT", "CLOSING"}
PacketType == {"COMMAND", "ACL_DATA", "SCO_DATA", "ISO_DATA"}
InboundType == PacketType \cup {"EVENT"}
OpenHciResults == {-1, 0}
NoMgmt == [present |-> FALSE, bt_fd_ |-> -1]
NewMgmt == [present |-> TRUE, bt_fd_ |-> -1]

VARIABLES
  mState,       \* BluetoothHci::mState
  mCb,          \* BluetoothHci::mCb
  mFd,          \* BluetoothHci::mFd
  management_,  \* BluetoothHci::management_ (the NetBluetoothMgmt it owns)
  mH4,          \* BluetoothHci::mH4 is non-null
  watching,     \* mFdWatcher is watching mFd
  dr_mCb,       \* BluetoothDeathRecipient::mCb
  has_died_,    \* BluetoothDeathRecipient::has_died_
  links,        \* links[c]: death registrations on c's binder not yet notified
  alive,        \* alive[c]: AIBinder_isAlive of c's binder
  crashed,      \* "none", or the LOG_ALWAYS_FATAL that ended the process
  crashedIn,    \* the call that raised it
  calls,        \* the calls in progress, one per busy binder thread
  returned,     \* the call that returned in the last step, or NoReturn
  mStateWrite,  \* how the last step wrote mState: "none", or "guarded" by
                \* a lock_guard on mStateMutex, or "unguarded"
  frames,       \* the packets framed onto the wire, in order
  wire,         \* the bytes of the wire that no read has returned yet
  h4buf,        \* the codec's buffer: the bytes of the packet it is assembling
  decoded,      \* the packets the codec has completed, in order
  mLockSetCurrentFunction,      \* UsbGadget: the thread that holds it, or 0
  mCurrentUsbFunctions,         \* UsbGadget::mCurrentUsbFunctions
  mCurrentUsbFunctionsApplied,  \* UsbGadget::mCurrentUsbFunctionsApplied
  gadget,       \* the gadget configuration: pulled up, VID/PID, monitorFfs
  usbCalls,     \* usbCalls[t]: the setCurrentUsbFunctions call of thread t
  usbReturned   \* the setCurrentUsbFunctions call that returned in the last
                \* step, or NoUsbCall

vars == <<mState, mCb, mFd, management_, mH4, watching, dr_mCb, has_died_,
          links, alive, crashed, crashedIn, calls, returned, mStateWrite,
          frames, wire, h4buf, decoded, mLockSetCurrentFunction,
          mCurrentUsbFunctions, mCurrentUsbFunctionsApplied, gadget, usbCalls,
          usbReturned>>

session == <<mState, mCb, mFd, management_, mH4, watching>>
recipient == <<dr_mCb, has_died_, links>>
fatal == <<crashed, crashedIn>>
codec == <<frames, wire, h4buf, decoded>>
usb == <<mLockSetCurrentFunction, mCurrentUsbFunctions,
         mCurrentUsbFunctionsApplied, gadget, usbCalls, usbReturned>>

(* A call in progress: its entry point, its position, initialize's         *)
(* argument cb and local old_state, the place the close() it is in returns *)
(* to, and what the call did so far, in order.                             *)
Call(o, l, c, os, rt, tr) ==
  [op |-> o, pc |-> l, cb |-> c, old_state |-> os, retTo |-> rt, trace |-> tr]
NoCall == Call("none", "idle", NullCb, "READY", "caller", <<>>)

NoReturn == [op |-> "none", cb |-> NullCb, old_state |-> "READY",
             ptype |-> "COMMAND", v |-> <<>>, ret |-> "none", trace |-> <<>>]

Ev(e) == <<e, 0, "">>
Notify(c, st) == <<"initializationComplete", c, st>>
Written(ty, p) == <<"write", ty, p>>
Has(s, e) == \E i \in 1..Len(s) : s[i] = e
HasEv(s, n) == \E i \in 1..Len(s) : s[i][1] = n
Count(s, n) == Cardinality({i \in 1..Len(s) : s[i][1] = n})
Running == crashed = "none"
(* A result stays in returned for one step: a step of a call in progress,  *)
(* or Reply, which only hands it over. No step of the program reads        *)
(* returned, so the calls and events that could begin while it is there    *)
(* are those that can begin once it is gone, and begin then.               *)
Quiet == Running /\ returned = NoReturn
NoWrite == mStateWrite' = "none"
Guarded == mStateWrite' = "guarded"
Unguarded == mStateWrite' = "unguarded"

SessionInit ==
  /\ mState = "READY"
  /\ mCb = NullCb
  /\ mFd = -1
  /\ management_ = NoMgmt
  /\ mH4 = FALSE
  /\ watching = FALSE
  /\ dr_mCb = NullCb
  /\ has_died_ = FALSE
  /\ links = [c \in Callbacks |-> 0]
  /\ alive = [c \in Callbacks |-> TRUE]
  /\ crashed = "none"
  /\ crashedIn = NoCall
  /\ calls = EmptyBag
  /\ returned = NoReturn
  /\ mStateWrite = "none"

(* ------------------------------ UsbGadget ----------------------------- *)
UsbThreads == 1..NumThreads
NoThread == 0

(* GadgetFunction values, as the sets of the functions they name *)
NONE == {}
Supported ==
  {{"MTP"}, {"ADB", "MTP"}, {"RNDIS"}, {"ADB", "RNDIS"}, {"PTP"}, {"ADB", "PTP"},
   {"ADB"}, {"MIDI"}, {"ADB", "MIDI"}, {"NCM"}, {"ADB", "NCM"}, {"ACCESSORY"},
   {"ADB", "ACCESSORY"}, {"AUDIO_SOURCE"}, {"ADB", "AUDIO_SOURCE"},
   {"ACCESSORY", "AUDIO_SOURCE"}, {"ADB", "ACCESSORY", "AUDIO_SOURCE"}}
(* the values that calls are tried with *)
UsbInputs == {NONE, {"ADB"}, {"RNDIS"}, {"MTP", "PTP"}}

UsbCall(l, f, c, st, pa, cs) ==
  [pc |-> l, functions |-> f, callback |-> c, status |-> st, path |-> pa,
   cbs |-> cs]
NoUsbCall == UsbCall("idle", NONE, NullCb, "SUCCESS", "", <<>>)

UsbOff ==
  /\ mLockSetCurrentFunction = NoThread
  /\ mCurrentUsbFunctions = NONE
  /\ mCurrentUsbFunctionsApplied = FALSE
  /\ gadget = [pullup |-> FALSE, vidpid |-> NONE, monitor |-> FALSE]
  /\ usbCalls = [t \in UsbThreads |-> NoUsbCall]
  /\ usbReturned = NoUsbCall

Init ==
  /\ SessionInit
  /\ frames = <<>> /\ wire = <<>> /\ h4buf = <<>> /\ decoded = <<>>
  /\ UsbOff

DeviceOpen == management_.present /\ management_.bt_fd_ >= 0

(* ------------------------- steps of a thread -------------------------- *)
Busy == BagToSet(calls)
FreeThread == Quiet /\ BagCardinality(calls) < NumThreads
At(k, l) == Running /\ k.pc = l

(* The call k goes on to l having done the events es. (A call that a free  *)
(* thread is just taking is not in the bag yet: removing it changes        *)
(* nothing.)                                                               *)
Step(k, l, es) ==
  /\ calls' = (calls (-) SetToBag({k}))
                (+) SetToBag({[k EXCEPT !.pc = l, !.trace = @ \o es]})
  /\ returned' = NoReturn
  /\ UNCHANGED <<fatal, codec, usb>>

(* The call k enters close(), which will return to rt. *)
EnterClose(k, rt, es) ==
  /\ calls' = (calls (-) SetToBag({k}))
                (+) SetToBag({[k EXCEPT !.pc = "close_lock", !.retTo = rt,
                                        !.trace = @ \o es]})
  /\ returned' = NoReturn
  /\ UNCHANGED <<fatal, codec, usb>>

(* A call of send returns r. *)
ReturnSend(ty, p, r, es) ==
  /\ returned' = [op |-> "send", cb |-> NullCb, old_state |-> "READY",
                  ptype |-> ty, v |-> p, ret |-> r, trace |-> es]
  /\ UNCHANGED <<calls, fatal, codec, usb>>

(* The call k returns r after the events es; its thread is free again. *)
Return(k, r, es) ==
  /\ returned' = [op |-> k.op, cb |-> k.cb, old_state |-> k.old_state,
                  ptype |-> "COMMAND", v |-> <<>>, ret |-> r, trace |-> k.trace \o es]
  /\ calls' = calls (-) SetToBag({k})
  /\ UNCHANGED <<fatal, codec, usb>>

(* LOG_ALWAYS_FATAL in call k: the process ends; no thread takes another   *)
(* step.                                                                   *)
Fatal(k, why) ==
  /\ crashed' = why
  /\ crashedIn' = k
  /\ calls' = calls (-) SetToBag({k})
  /\ returned' = NoReturn
  /\ UNCHANGED <<codec, usb>>

(* ------------------------ the client processes ------------------------ *)
Saturate(n) == IF n > MaxLinks THEN MaxLinks ELSE n

(* The process that hosts callback c dies: its binder is dead from now on  *)
(* and every death registration made on it will be notified (OnDeath).     *)
ClientDies(c) ==
  /\ Quiet
  /\ alive[c]
  /\ alive' = [alive EXCEPT ![c] = FALSE]
  /\ returned' = NoReturn
  /\ NoWrite
  /\ UNCHANGED <<session, recipient, fatal, calls, codec, usb>>

(* A binder transaction to c is delivered only if c is alive; a live       *)
(* client may still reject it.                                             *)
TransactionOutcomes(c) == IF c # NullCb /\ alive[c] THEN {TRUE, FALSE} ELSE {FALSE}

(* NetBluetoothMgmt::openHci stores the descriptor it opened in bt_fd_ and *)
(* returns it, or returns a negative value; closeHci closes bt_fd_.        *)
(* ~NetBluetoothMgmt closes bt_fd_ too, so that no descriptor outlives the *)
(* object that management_.reset() destroys.                               *)
openHci(m, fd) == [m EXCEPT !.bt_fd_ = IF fd >= 0 THEN fd ELSE -1]
closeHci(m) == [m EXCEPT !.bt_fd_ = -1]

(* ------------------------ BluetoothHci::close ------------------------- *)
(* close() returns ok to the place it was called from: the binder caller,  *)
(* serviceDied (line 60, which then returns nothing), initialize line 105  *)
(* (lines 106-107 follow) or line 158 (lines 159-160 follow).              *)
CloseReturn(k, es) ==
  CASE k.retTo = "caller" -> Return(k, "ok", es)
    [] k.retTo = "serviceDied" -> Return(k, "void", es)
    [] k.retTo = "init_already" ->
         Return(k, "ok", es \o <<Notify(k.cb, "ALREADY_INITIALIZED")>>)
    [] k.retTo = "init_txfail" -> Return(k, "STATUS_FAILED_TRANSACTION", es)

(* lines 168-177 *)
CloseSection(k) ==
  /\ IF mState # "ONE_CLIENT"
       THEN IF mState = "INITIALIZING"
              THEN /\ Fatal(k, "mState is INITIALIZING")
                   /\ NoWrite
                   /\ UNCHANGED mState
              ELSE /\ CloseReturn(k, <<Ev("Already closed")>>)
                   /\ NoWrite
                   /\ UNCHANGED mState
       ELSE /\ mState' = "CLOSING"
            /\ Guarded
            /\ Step(k, "close_stop", <<Ev("CLOSING")>>)
  /\ UNCHANGED <<mCb, mFd, management_, mH4, watching, recipient, alive>>

(* close() called over binder: a free thread takes the call and runs the   *)
(* critical section.                                                       *)
CloseCall ==
  /\ FreeThread
  /\ CloseSection(Call("close", "close_lock", NullCb, "READY", "caller", <<>>))

(* close() called by initialize or by serviceDied *)
CloseLock(k) ==
  /\ At(k, "close_lock")
  /\ CloseSection(k)

CloseStopMutant(k) ==
  /\ At(k, "close_stop")
  /\ watching' = FALSE
  /\ Step(k, "close_ready", <<Ev("StopWatchingFileDescriptors")>>)
  /\ NoWrite
  /\ UNCHANGED <<mState, mCb, mFd, management_, mH4, recipient, alive>>

(* line 179 *)
CloseStop(k) ==
  /\ At(k, "close_stop")
  /\ watching' = FALSE
  /\ Step(k, "close_hci", <<Ev("StopWatchingFileDescriptors")>>)
  /\ NoWrite
  /\ UNCHANGED <<mState, mCb, mFd, management_, mH4, recipient, alive>>

(* line 181 *)
CloseHci(k) ==
  /\ At(k, "close_hci")
  /\ management_' = closeHci(management_)
  /\ Step(k, "close_ready", <<Ev("closeHci")>>)
  /\ NoWrite
  /\ UNCHANGED <<mState, mCb, mFd, mH4, watching, recipient, alive>>

(* lines 183-188 *)
CloseReady(k) ==
  /\ At(k, "close_ready")
  /\ mState' = "READY"
  /\ Guarded
  /\ mH4' = FALSE
  /\ CloseReturn(k, <<Ev("READY")>>)
  /\ UNCHANGED <<mCb, mFd, management_, watching, recipient, alive>>

(* --------------------- BluetoothHci::initialize ----------------------- *)
UnexpectedMutant(os) == os = "INITIALIZING"
UnexpectedNever(os) == FALSE
Unexpected(os) == os # "READY"

(* lines 84-105: the null check, the critical section that reads mState    *)
(* into old_state or claims INITIALIZING, and the call of close() when the *)
(* state was not READY.                                                    *)
(* The caller passes its own callback object, so it is alive at the call.  *)
InitializeCall(c) ==
  /\ FreeThread
  /\ c # NullCb => alive[c]
  /\ LET os == IF mState # "READY" THEN mState ELSE "READY"
         k == Call("initialize", "init_lock", c, os, "caller", <<>>)
     IN  IF c = NullCb
           THEN /\ Return([k EXCEPT !.old_state = "READY"], "STATUS_BAD_VALUE", <<>>)
                /\ NoWrite
                /\ UNCHANGED mState
           ELSE /\ mState' = IF mState # "READY" THEN mState ELSE "INITIALIZING"
                /\ IF mState # "READY" THEN NoWrite ELSE Guarded
                /\ IF Unexpected(os)
                     THEN EnterClose(k, "init_already", <<>>)
                     ELSE Step(k, "init_open", <<>>)
  /\ UNCHANGED <<mCb, mFd, management_, mH4, watching, recipient, alive>>

OpenFailedMutant(fd) == fd < -1
OpenFailed(fd) == fd < 0

(* lines 110-113 *)
InitOpen(k) ==
  /\ At(k, "init_open")
  /\ mCb' = k.cb
  /\ \E fd \in OpenHciResults :
       /\ management_' = openHci(NewMgmt, fd)
       /\ mFd' = fd
       /\ Step(k, IF OpenFailed(fd) THEN "init_fail" ELSE "init_link",
               <<<<"openHci", fd, "">>>>)
  /\ NoWrite
  /\ UNCHANGED <<mState, mH4, watching, recipient, alive>>

(* lines 114-119: the management object is dropped, mState is written      *)
(* without the lock, and the failure is reported to the caller's callback. *)
InitFail(k) ==
  /\ At(k, "init_fail")
  /\ management_' = NoMgmt
  /\ mState' = "READY"
  /\ Unguarded
  /\ Return(k, "ok", <<Ev("READY"), Notify(k.cb, "UNABLE_TO_OPEN_INTERFACE")>>)
  /\ UNCHANGED <<mCb, mFd, mH4, watching, recipient, alive>>

(* line 122, BluetoothDeathRecipient::LinkToDeath (lines 36-43):           *)
(* AIBinder_linkToDeath refuses a binder that is already dead.             *)
InitLink(k) ==
  /\ At(k, "init_link")
  /\ dr_mCb' = mCb
  /\ IF mCb # NullCb /\ alive[mCb]
       THEN /\ links' = [links EXCEPT ![mCb] = Saturate(@ + 1)]
            /\ Step(k, "init_h4", <<<<"LinkToDeath", mCb, "">>>>)
       ELSE /\ Fatal(k, "Unable to link to death recipient")
            /\ UNCHANGED links
  /\ NoWrite
  /\ UNCHANGED <<session, has_died_, alive>>

(* lines 124-144: the codec is constructed; mH4 is written without the lock *)
InitH4(k) ==
  /\ At(k, "init_h4")
  /\ mH4' = TRUE
  /\ Step(k, "init_watch", <<Ev("H4Protocol")>>)
  /\ NoWrite
  /\ UNCHANGED <<mState, mCb, mFd, management_, watching, recipient, alive>>

InitWatchMutant(k) ==
  /\ At(k, "init_watch")
  /\ watching' = TRUE
  /\ Step(k, "init_cb", <<Ev("WatchFdForNonBlockingReads")>>)
  /\ NoWrite
  /\ UNCHANGED <<mState, mCb, mFd, management_, mH4, recipient, alive>>

(* lines 145-146 *)
InitWatch(k) ==
  /\ At(k, "init_watch")
  /\ watching' = TRUE
  /\ Step(k, "init_active", <<Ev("WatchFdForNonBlockingReads")>>)
  /\ NoWrite
  /\ UNCHANGED <<mState, mCb, mFd, management_, mH4, recipient, alive>>

(* lines 148-151 *)
InitActive(k) ==
  /\ At(k, "init_active")
  /\ mState' = "ONE_CLIENT"
  /\ Guarded
  /\ Step(k, "init_cb", <<Ev("ONE_CLIENT")>>)
  /\ UNCHANGED <<mCb, mFd, management_, mH4, watching, recipient, alive>>

(* lines 153-158 and 163: the success notification goes to the member mCb. *)
(* When it is not delivered, has_died_ is read (only to log the anomaly)   *)
(* and close() is called.                                                  *)
InitCb(k) ==
  /\ At(k, "init_cb")
  /\ \E delivered \in TransactionOutcomes(mCb) :
       IF delivered
         THEN Return(k, "ok", <<Notify(mCb, "SUCCESS")>>)
         ELSE EnterClose(k, "init_txfail",
                IF has_died_ THEN <<Ev("not delivered")>>
                ELSE <<Ev("not delivered"), Ev("no death notification")>>)
  /\ NoWrite
  /\ UNCHANGED <<session, recipient, alive>>

(* ------------------------- BluetoothHci::send ------------------------- *)
PacketEmptyMutant(p) == FALSE
PacketEmpty(p) == Len(p) = 0

(* lines 191-225: sendHciCommand, sendAclData, sendScoData and sendIsoData *)
(* enter send with their packet type. An empty packet is refused at once;  *)
(* otherwise mH4 is tested and the packet written under the lock.          *)
SendCall(ty, p) ==
  /\ FreeThread
  /\ IF PacketEmpty(p)
       THEN ReturnSend(ty, p, "EX_ILLEGAL_ARGUMENT", <<>>)
       ELSE IF ~mH4
         THEN ReturnSend(ty, p, "EX_ILLEGAL_STATE", <<>>)
         ELSE ReturnSend(ty, p, "ok", <<Written(ty, p)>>)
  /\ NoWrite
  /\ UNCHANGED <<session, recipient, alive>>

(* ---------------- BluetoothDeathRecipient::serviceDied ---------------- *)
(* OnDeath (lines 75-78) runs serviceDied for one registration on the dead *)
(* binder of c; lines 50-55 test that the registered callback is dead.     *)
OnDeath(c) ==
  /\ FreeThread
  /\ ~alive[c]
  /\ links[c] > 0
  /\ links' = [links EXCEPT ![c] = @ - 1]
  /\ LET k == Call("serviceDied", "sd_check", NullCb, "READY", "serviceDied", <<>>)
     IN  IF dr_mCb # NullCb /\ ~alive[dr_mCb]
           THEN Step(k, "sd_flag", <<>>)
           ELSE Return(k, "void", <<Ev("not dead")>>)
  /\ NoWrite
  /\ UNCHANGED <<session, dr_mCb, has_died_, alive>>

SdFlagMutant(k) ==
  /\ At(k, "sd_flag")
  /\ EnterClose(k, "serviceDied", <<Ev("has_died_")>>)
  /\ NoWrite
  /\ UNCHANGED <<session, recipient, alive>>

(* lines 56-60 *)
SdFlag(k) ==
  /\ At(k, "sd_flag")
  /\ has_died_' = TRUE
  /\ EnterClose(k, "serviceDied", <<Ev("has_died_")>>)
  /\ NoWrite
  /\ UNCHANGED <<session, dr_mCb, links, alive>>

(* ----------------------- the watcher's thread ------------------------- *)
(* lines 126-140: the callbacks the codec is constructed with, in the      *)
(* order command, ACL, SCO, event, ISO; each hands the packet it is given  *)
(* to the member mCb, but for the first, which ends the process.           *)
HandlerSwapped(ty) ==
  CASE ty = "COMMAND" -> "LOG_ALWAYS_FATAL"
    [] ty = "ACL_DATA" -> "scoDataReceived"
    [] ty = "SCO_DATA" -> "aclDataReceived"
    [] ty = "EVENT" -> "hciEventReceived"
    [] ty = "ISO_DATA" -> "isoDataReceived"
Handler(ty) ==
  CASE ty = "COMMAND" -> "LOG_ALWAYS_FATAL"
    [] ty = "ACL_DATA" -> "aclDataReceived"
    [] ty = "SCO_DATA" -> "scoDataReceived"
    [] ty = "EVENT" -> "hciEventReceived"
    [] ty = "ISO_DATA" -> "isoDataReceived"

WatcherCall == Call("OnDataReady", "idle", NullCb, "READY", "caller", <<>>)

(* line 146: while the descriptor is watched, the watcher's thread runs    *)
(* mH4->OnDataReady() when the device has bytes; here the bytes it reads   *)
(* complete a packet of type ty with payload p, which the codec hands to   *)
(* the callback of that type. The thread holds no lock.                    *)
OnDataReady(ty, p) ==
  /\ Quiet
  /\ watching
  /\ IF Handler(ty) = "LOG_ALWAYS_FATAL"
       THEN Fatal(WatcherCall, "Unexpected command!")
       ELSE /\ returned' = [op |-> "OnDataReady", cb |-> mCb, old_state |-> "READY",
                            ptype |-> ty, v |-> p, ret |-> Handler(ty),
                            trace |-> <<>>]
            /\ UNCHANGED <<calls, fatal, codec, usb>>
  /\ NoWrite
  /\ UNCHANGED <<session, recipient, alive>>

(* lines 141-144: the read found the device disconnected, and the codec    *)
(* runs the last callback it was constructed with.                         *)
OnDisconnect ==
  /\ Quiet
  /\ watching
  /\ watching' = FALSE
  /\ returned' = [op |-> "OnDataReady", cb |-> NullCb, old_state |-> "READY",
                  ptype |-> "COMMAND", v |-> <<>>, ret |-> "disconnected",
                  trace |-> <<Ev("StopWatchingFileDescriptors")>>]
  /\ NoWrite
  /\ UNCHANGED <<mState, mCb, mFd, management_, mH4, recipient, alive, calls, fatal,
                 codec, usb>>

(* The result of the last step has been handed over. *)
Reply ==
  /\ returned # NoReturn
  /\ returned' = NoReturn
  /\ NoWrite
  /\ UNCHANGED <<session, recipient, alive, calls, fatal, codec, usb>>

(* ------------------------------ the system ---------------------------- *)
Next ==
  \/ \E c \in Callbacks : ClientDies(c)
  \/ \E c \in Callbacks \cup {NullCb} : InitializeCall(c)
  \/ CloseCall
  \/ \E ty \in PacketType, p \in Payloads : SendCall(ty, p)
  \/ \E c \in Callbacks : OnDeath(c)
  \/ \E ty \in InboundType, p \in Payloads \ {<<>>} : OnDataReady(ty, p)
  \/ OnDisconnect
  \/ Reply
  \/ \E k \in Busy :
       \/ InitOpen(k)
       \/ InitFail(k)
       \/ InitLink(k)
       \/ InitH4(k)
       \/ InitWatch(k)
       \/ InitActive(k)
       \/ InitCb(k)
       \/ CloseLock(k)
       \/ CloseStop(k)
       \/ CloseHci(k)
       \/ CloseReady(k)
       \/ SdFlag(k)

Spec == Init /\ [][Next]_vars

(* A thread that is inside a call keeps running: the scheduler is fair to  *)
(* every thread, and mStateMutex is only ever held for a few statements.   *)
(* Nothing obliges a client to make a call or to die.                      *)
Labels == {"init_open", "init_fail", "init_link", "init_h4", "init_watch",
           "init_active", "init_cb", "close_lock", "close_stop", "close_hci",
           "close_ready", "sd_flag"}
ThreadStep(k) ==
  \/ InitOpen(k) \/ InitFail(k) \/ InitLink(k) \/ InitH4(k) \/ InitWatch(k)
  \/ InitActive(k) \/ InitCb(k) \/ CloseLock(k) \/ CloseStop(k) \/ CloseHci(k)
  \/ CloseReady(k) \/ SdFlag(k)
FairSpec ==
  /\ Spec
  /\ WF_vars(Reply)
  /\ \A l \in Labels : WF_vars(\E k \in Busy : k.pc = l /\ ThreadStep(k))

(* The caller of initialize and close never has two of its calls running   *)
(* at once; sends, the death notifications and the device go on as they    *)
(* like.                                                                   *)
CallerIdle == \A k \in Busy : k.op \notin {"initialize", "close"}

CorrectUseNext ==
  \/ \E c \in Callbacks : ClientDies(c)
  \/ \E c \in Callbacks \cup {NullCb} : CallerIdle /\ InitializeCall(c)
  \/ CallerIdle /\ CloseCall
  \/ \E ty \in PacketType, p \in Payloads : SendCall(ty, p)
  \/ \E c \in Callbacks : OnDeath(c)
  \/ \E ty \in InboundType, p \in Payloads \ {<<>>} : OnDataReady(ty, p)
  \/ OnDisconnect
  \/ Reply
  \/ \E k \in Busy : ThreadStep(k)

CorrectUseSpec == Init /\ [][CorrectUseNext]_vars

(* ------------------------------ the codec ----------------------------- *)
(* The wire format: one byte for the packet type, a length field whose     *)
(* width depends on the type (little-endian where it has two bytes), then  *)
(* as many bytes of payload as the field says.                             *)
(* The payloads tried hold the bytes 1, 2, ..., which are type bytes and   *)
(* lengths as well.                                                        *)
FramePayloads == {[i \in 1..n |-> i] : n \in 1..MaxFrameLen}
Frames == [ty : InboundType, v : FramePayloads]
FrameSeqs == UNION {[1..n -> Frames] : n \in 0..MaxFrames}

KindByte(ty) ==
  CASE ty = "COMMAND" -> 1
    [] ty = "ACL_DATA" -> 2
    [] ty = "SCO_DATA" -> 3
    [] ty = "EVENT" -> 4
    [] ty = "ISO_DATA" -> 5
LenWidth(ty) == IF ty \in {"ACL_DATA", "ISO_DATA"} THEN 2 ELSE 1
LenField(ty, n) ==
  IF LenWidth(ty) = 2 THEN <<n % 256, n \div 256>> ELSE <<n % 256>>

(* the bytes one send puts on the wire *)
Frame(ty, p) == <<KindByte(ty)>> \o LenField(ty, Len(p)) \o p

RECURSIVE Framed(_)
Framed(fs) ==
  IF fs = <<>> THEN <<>> ELSE Frame(fs[1].ty, fs[1].v) \o Framed(Tail(fs))

(* What the codec makes of the bytes it holds: the type, once the first    *)
(* byte is there; the length, once the length field is; the packet, once   *)
(* its last byte is.                                                       *)
KnownKind(buf) == Len(buf) >= 1 /\ \E ty \in InboundType : KindByte(ty) = buf[1]
KindOf(buf) == CHOOSE ty \in InboundType : KindByte(ty) = buf[1]
HeaderLen(buf) == 1 + LenWidth(KindOf(buf))
PayloadLen(buf) ==
  IF LenWidth(KindOf(buf)) = 2 THEN buf[2] + 256 * buf[3] ELSE buf[2]
HasPacket(buf) ==
  /\ KnownKind(buf)
  /\ Len(buf) >= HeaderLen(buf)
  /\ Len(buf) >= HeaderLen(buf) + PayloadLen(buf)
FirstPacket(buf) ==
  [ty |-> KindOf(buf),
   v |-> SubSeq(buf, HeaderLen(buf) + 1, HeaderLen(buf) + PayloadLen(buf))]
AfterFirst(buf) == SubSeq(buf, HeaderLen(buf) + PayloadLen(buf) + 1, Len(buf))

(* the packets that the bytes held complete, in order, and the bytes left *)
RECURSIVE Packets(_)
Packets(buf) ==
  IF HasPacket(buf) THEN <<FirstPacket(buf)>> \o Packets(AfterFirst(buf)) ELSE <<>>
RECURSIVE Leftover(_)
Leftover(buf) == IF HasPacket(buf) THEN Leftover(AfterFirst(buf)) ELSE buf

OnBytesUnbuffered(n) ==
  /\ n \in 1..Len(wire)
  /\ LET got == SubSeq(wire, 1, n)
     IN  /\ decoded' = decoded \o Packets(got)
         /\ h4buf' = <<>>
  /\ wire' = SubSeq(wire, n + 1, Len(wire))
  /\ UNCHANGED <<frames, session, recipient, alive, fatal, calls, returned,
                 mStateWrite, usb>>

(* One decode step: a read returns the next n bytes of the wire, and the   *)
(* codec completes what packets they complete and keeps the rest.          *)
OnBytes(n) ==
  /\ n \in 1..Len(wire)
  /\ LET got == h4buf \o SubSeq(wire, 1, n)
     IN  /\ decoded' = decoded \o Packets(got)
         /\ h4buf' = Leftover(got)
  /\ wire' = SubSeq(wire, n + 1, Len(wire))
  /\ UNCHANGED <<frames, session, recipient, alive, fatal, calls, returned,
                 mStateWrite, usb>>

(* The codec on its own: any packets, framed onto the wire one after the   *)
(* other, are read back in chunks of any sizes.                            *)
CodecInit ==
  /\ SessionInit
  /\ frames \in FrameSeqs
  /\ wire = Framed(frames)
  /\ h4buf = <<>>
  /\ decoded = <<>>
  /\ UsbOff

CodecNext == \E n \in 1..(MaxFrames * (3 + MaxFrameLen)) : OnBytes(n)

CodecSpec == CodecInit /\ [][CodecNext]_vars

(* ---------------- UsbGadget::setCurrentUsbFunctions ------------------- *)
bluetooth == <<session, recipient, alive, fatal, calls, returned, mStateWrite>>
UsbAt(t, l) == usbCalls[t].pc = l
UsbStatus == {"SUCCESS", "ERROR"}
Cb(f, st) == [functions |-> f, status |-> st]

(* The call of thread t goes on to l. *)
UsbStep(t, l) ==
  /\ usbCalls' = [usbCalls EXCEPT ![t].pc = l]
  /\ usbReturned' = NoUsbCall
  /\ UNCHANGED mLockSetCurrentFunction

(* The call of thread t returns by the path pa, having invoked the         *)
(* callbacks cs on the way; lk goes out of scope and releases the mutex.   *)
UsbReturn(t, pa, cs) ==
  /\ usbReturned' = [usbCalls[t] EXCEPT !.pc = "returned", !.path = pa,
                                         !.cbs = @ \o cs]
  /\ usbCalls' = [usbCalls EXCEPT ![t] = NoUsbCall]
  /\ mLockSetCurrentFunction' = NoThread

(* lines 294-303: the label error *)
UsbError(t, st, pa) ==
  IF usbCalls[t].callback = NullCb
    THEN UsbReturn(t, pa, <<>>)
    ELSE UsbReturn(t, pa, <<Cb(usbCalls[t].functions, st)>>)

(* lines 248-251: a call arrives on thread t *)
UsbBegin(t, f, c) ==
  /\ UsbAt(t, "idle")
  /\ usbCalls' = [usbCalls EXCEPT ![t] = UsbCall("lock", f, c, "SUCCESS", "", <<>>)]
  /\ usbReturned' = NoUsbCall
  /\ UNCHANGED <<mLockSetCurrentFunction, mCurrentUsbFunctions,
                 mCurrentUsbFunctionsApplied, gadget, bluetooth, codec>>

LockFreeMutant(l) == TRUE
(* std::mutex: lock() returns once no thread holds the mutex *)
LockFree(l) == l = NoThread

(* lines 252-255 *)
UsbLock(t) ==
  /\ UsbAt(t, "lock")
  /\ LockFree(mLockSetCurrentFunction)
  /\ mLockSetCurrentFunction' = t
  /\ mCurrentUsbFunctions' = usbCalls[t].functions
  /\ mCurrentUsbFunctionsApplied' = FALSE
  /\ usbCalls' = [usbCalls EXCEPT ![t].pc = "teardown"]
  /\ usbReturned' = NoUsbCall
  /\ UNCHANGED <<gadget, bluetooth, codec>>

(* lines 258-261 and 100: resetGadget unlinks the gadget, or fails *)
UsbResetGadget(t) ==
  /\ UsbAt(t, "teardown")
  /\ \E r \in UsbStatus :
       IF r # "SUCCESS"
         THEN /\ UsbError(t, "ERROR", "teardown failed")
              /\ UNCHANGED gadget
         ELSE /\ gadget' = [gadget EXCEPT !.pullup = FALSE, !.vidpid = NONE]
              /\ UsbStep(t, "monitor_reset")
  /\ UNCHANGED <<mCurrentUsbFunctions, mCurrentUsbFunctionsApplied, bluetooth, codec>>

(* lines 102-107 and 266 *)
UsbMonitorReset(t) ==
  /\ UsbAt(t, "monitor_reset")
  /\ gadget' = [gadget EXCEPT !.monitor = FALSE]
  /\ UsbStep(t, "functions")
  /\ UNCHANGED <<mCurrentUsbFunctions, mCurrentUsbFunctionsApplied, bluetooth, codec>>

(* lines 138-199: the combinations that have a VID/PID; setVidPid may fail *)
validateAndSetVidPid(f, r) ==
  IF f \in Supported THEN r ELSE "CONFIGURATION_NOT_SUPPORTED"

(* lines 268-283 *)
UsbFunctions(t) ==
  /\ UsbAt(t, "functions")
  /\ LET f == usbCalls[t].functions
     IN  IF f = NONE
           THEN /\ IF usbCalls[t].callback = NullCb
                     THEN UsbReturn(t, "none", <<>>)
                     ELSE UsbReturn(t, "none", <<Cb(f, "SUCCESS")>>)
                /\ UNCHANGED gadget
           ELSE \E r \in UsbStatus :
                  LET status == validateAndSetVidPid(f, r)
                  IN  IF status # "SUCCESS"
                        THEN /\ UsbError(t, status,
                                   IF f \in Supported THEN "vidpid failed"
                                   ELSE "unsupported")
                             /\ UNCHANGED gadget
                        ELSE /\ gadget' = [gadget EXCEPT !.vidpid = f]
                             /\ UsbStep(t, "setup")
  /\ UNCHANGED <<mCurrentUsbFunctions, mCurrentUsbFunctionsApplied, bluetooth, codec>>

(* lines 285-288 with setupFunctions, lines 204-232: the functions are     *)
(* added (either addition may fail); without ffs functions the gadget is   *)
(* pulled up at once and the callback told; with them the monitor is       *)
(* started.                                                                *)
UsbSetup(t) ==
  /\ UsbAt(t, "setup")
  /\ LET f == usbCalls[t].functions
         c == usbCalls[t].callback
     IN  \E generic \in UsbStatus, genericFfs \in BOOLEAN, adb \in UsbStatus,
            written \in BOOLEAN :
           LET ffsEnabled == genericFfs \/ "ADB" \in f
           IN  IF generic # "SUCCESS" \/ ("ADB" \in f /\ adb # "SUCCESS")
                    \/ (~ffsEnabled /\ ~written)
                 THEN /\ UsbError(t, "ERROR", "setup failed")
                      /\ UNCHANGED <<gadget, mCurrentUsbFunctionsApplied>>
                 ELSE IF ~ffsEnabled
                   THEN /\ gadget' = [gadget EXCEPT !.pullup = TRUE]
                        /\ mCurrentUsbFunctionsApplied' = TRUE
                        /\ UsbReturn(t, "immediate",
                              IF c = NullCb THEN <<>> ELSE <<Cb(f, "SUCCESS")>>)
                   ELSE /\ gadget' = [gadget EXCEPT !.monitor = TRUE]
                        /\ UsbStep(t, "wait")
                        /\ UNCHANGED mCurrentUsbFunctionsApplied
  /\ UNCHANGED <<mCurrentUsbFunctions, bluetooth, codec>>

PullUpStatusMutant(pullup) == "SUCCESS"
(* line 239 *)
PullUpStatus(pullup) == IF pullup THEN "SUCCESS" ELSE "ERROR"

(* lines 236-245 and 290-292: waitForPullUp returns when the monitor has   *)
(* pulled the gadget up, or when the timeout has passed without.           *)
UsbWait(t) ==
  /\ UsbAt(t, "wait")
  /\ LET f == usbCalls[t].functions
         pullup == gadget.pullup
     IN  IF usbCalls[t].callback = NullCb
           THEN UsbReturn(t, "not waited", <<>>)
           ELSE UsbReturn(t, IF pullup THEN "confirmed" ELSE "timed out",
                          <<Cb(f, PullUpStatus(pullup))>>)
  /\ UNCHANGED <<mCurrentUsbFunctions, mCurrentUsbFunctionsApplied, gadget,
                 bluetooth, codec>>

(* lines 43-46: the monitor's thread, once the ffs descriptors are         *)
(* written, pulls the gadget up and reports it; it holds no lock.          *)
MonitorPullUp ==
  /\ gadget.monitor
  /\ ~gadget.pullup
  /\ gadget' = [gadget EXCEPT !.pullup = TRUE]
  /\ mCurrentUsbFunctionsApplied' = TRUE
  /\ usbReturned' = NoUsbCall
  /\ UNCHANGED <<mLockSetCurrentFunction, mCurrentUsbFunctions, usbCalls,
                 bluetooth, codec>>

(* lines 43-46: the ffs process has gone, and the monitor reports that     *)
(* the functions are no longer applied.                                    *)
MonitorPullDown ==
  /\ gadget.monitor
  /\ gadget.pullup
  /\ gadget' = [gadget EXCEPT !.pullup = FALSE]
  /\ mCurrentUsbFunctionsApplied' = FALSE
  /\ usbReturned' = NoUsbCall
  /\ UNCHANGED <<mLockSetCurrentFunction, mCurrentUsbFunctions, usbCalls,
                 bluetooth, codec>>

(* mCurrentUsbFunctions and mCurrentUsbFunctionsApplied have no            *)
(* initializer and the constructor (lines 36-41) sets neither; the gadget  *)
(* is as the boot left it, and the monitor is not running.                 *)
UsbInit ==
  /\ SessionInit
  /\ frames = <<>> /\ wire = <<>> /\ h4buf = <<>> /\ decoded = <<>>
  /\ mLockSetCurrentFunction = NoThread
  /\ mCurrentUsbFunctions \in UsbInputs
  /\ mCurrentUsbFunctionsApplied \in BOOLEAN
  /\ gadget \in [pullup : BOOLEAN, vidpid : {NONE}, monitor : {FALSE}]
  /\ usbCalls = [t \in UsbThreads |-> NoUsbCall]
  /\ usbReturned = NoUsbCall

UsbNext ==
  \/ \E t \in UsbThreads, f \in UsbInputs, c \in Callbacks \cup {NullCb} :
       UsbBegin(t, f, c)
  \/ \E t \in UsbThreads :
       \/ UsbLock(t)
       \/ UsbResetGadget(t)
       \/ UsbMonitorReset(t)
       \/ UsbFunctions(t)
       \/ UsbSetup(t)
       \/ UsbWait(t)
  \/ MonitorPullUp
  \/ MonitorPullDown

UsbSpec == UsbInit /\ [][UsbNext]_vars

TypeOK ==
  /\ mState \in HalState
  /\ mCb \in Callbacks \cup {NullCb}
  /\ mFd \in OpenHciResults \cup {-1}
  /\ mH4 \in BOOLEAN /\ watching \in BOOLEAN /\ has_died_ \in BOOLEAN
  /\ \A c \in Callbacks : links[c] \in 0..MaxLinks
  /\ BagCardinality(calls) <= NumThreads
  /\ mStateWrite \in {"none", "guarded", "unguarded"}

(* ------------------------------- claims ------------------------------- *)
OpenedOk(tr) == \E i \in 1..Len(tr) : tr[i][1] = "openHci" /\ tr[i][2] >= 0
OpenedBad(tr) == \E i \in 1..Len(tr) : tr[i][1] = "openHci" /\ tr[i][2] < 0
TornDown == mState = "READY" /\ ~DeviceOpen /\ ~mH4 /\ ~watching
TeardownTrace ==
  <<Ev("CLOSING"), Ev("StopWatchingFileDescriptors"), Ev("closeHci"), Ev("READY")>>

(* C1: the state becomes ONE_CLIENT only with the descriptor that openHci  *)
(* returned (non-negative) open; ONE_CLIENT is left only for CLOSING, and  *)
(* CLOSING is left for READY only with the descriptor released; the device *)
(* is never open while the state is READY.                                 *)
C1_DeviceLifetime ==
  /\ [](mState = "READY" => ~DeviceOpen)
  /\ [][/\ (mState # "ONE_CLIENT" /\ mState' = "ONE_CLIENT")
             => (mState = "INITIALIZING" /\ DeviceOpen' /\ mFd' >= 0
                 /\ management_'.bt_fd_ = mFd')
        /\ (mState = "ONE_CLIENT" /\ mState' # "ONE_CLIENT")
             => (mState' = "CLOSING" /\ DeviceOpen')
        /\ (mState = "CLOSING" /\ mState' # "CLOSING")
             => (mState' = "READY" /\ ~DeviceOpen')]_vars

C1_Witness ==
  /\ returned.op = "close"
  /\ returned.trace = TeardownTrace
  /\ mState = "READY"
  /\ mFd >= 0

(* C2: an initialize call that found the state ONE_CLIENT returns ok after *)
(* reporting ALREADY_INITIALIZED, once, to the callback it was passed; it  *)
(* does not call openHci, does not link to death, constructs no codec and  *)
(* does not watch a descriptor, so it starts no second session.            *)
C2_AlreadyInitialized ==
  (returned.op = "initialize" /\ returned.old_state = "ONE_CLIENT") =>
     /\ returned.ret = "ok"
     /\ Count(returned.trace, "initializationComplete") = 1
     /\ returned.trace[Len(returned.trace)]
          = Notify(returned.cb, "ALREADY_INITIALIZED")
     /\ ~HasEv(returned.trace, "openHci")
     /\ ~HasEv(returned.trace, "LinkToDeath")
     /\ ~HasEv(returned.trace, "H4Protocol")
     /\ ~HasEv(returned.trace, "WatchFdForNonBlockingReads")
     /\ ~HasEv(returned.trace, "ONE_CLIENT")

C2_Witness ==
  /\ returned.op = "initialize"
  /\ returned.old_state = "ONE_CLIENT"
  /\ HasEv(returned.trace, "closeHci")
  /\ returned.ret = "ok"

(* C3 (as claimed): a send of a non-empty packet while the state is not    *)
(* ONE_CLIENT returns EX_ILLEGAL_STATE and writes nothing.                 *)
C3_SendNotActive ==
  (returned.op = "send" /\ Len(returned.v) > 0 /\ mState # "ONE_CLIENT") =>
     /\ returned.ret = "EX_ILLEGAL_STATE"
     /\ ~HasEv(returned.trace, "write")

(* C4: a send of an empty packet returns EX_ILLEGAL_ARGUMENT, whatever the *)
(* state and the packet type, writes nothing and leaves the state, the     *)
(* codec, the descriptor and the watcher as they were.                     *)
C4_SendEmpty ==
  /\ [](returned.op = "send" /\ returned.v = <<>> =>
          returned.ret = "EX_ILLEGAL_ARGUMENT" /\ returned.trace = <<>>)
  /\ [][(returned'.op = "send" /\ returned'.v = <<>>) =>
          UNCHANGED <<session, recipient, alive, calls, fatal>>]_vars

C4_Witness ==
  /\ returned.op = "send"
  /\ returned.v = <<>>
  /\ returned.ret = "EX_ILLEGAL_ARGUMENT"
  /\ returned.ptype = "ISO_DATA"
  /\ mState = "ONE_CLIENT"
  /\ mH4

(* C5: a serviceDied call for a dead client that finds the state           *)
(* ONE_CLIENT records has_died_ and then takes the session through CLOSING *)
(* to READY itself, stopping the watcher, releasing the device and         *)
(* dropping the codec on the way; and once the notification of a dead      *)
(* client is running while the state is ONE_CLIENT, the state reaches      *)
(* READY, whether or not anybody else calls close, unless the device ends  *)
(* the process first by sending a command packet.                          *)
DeathRunning == \E k \in Busy : k.op = "serviceDied"

C5_DeathTeardown ==
  /\ []((returned.op = "serviceDied" /\ HasEv(returned.trace, "CLOSING")) =>
          /\ has_died_
          /\ returned.trace = <<Ev("has_died_")>> \o TeardownTrace
          /\ TornDown)
  /\ ((DeathRunning /\ mState = "ONE_CLIENT")
        ~> (mState = "READY" \/ crashed = "Unexpected command!"))

C5_Witness ==
  /\ returned.op = "serviceDied"
  /\ returned.trace = <<Ev("has_died_")>> \o TeardownTrace
  /\ calls = EmptyBag
  /\ TornDown

(* C6: an initialize call whose openHci returned a negative value reports  *)
(* UNABLE_TO_OPEN_INTERFACE to its callback, once, and returns with the    *)
(* state READY, having made no death registration, constructed no codec    *)
(* and watched no descriptor.                                              *)
C6_OpenFailure ==
  (returned.op = "initialize" /\ OpenedBad(returned.trace)) =>
     /\ returned.trace = <<<<"openHci", returned.trace[1][2], "">>, Ev("READY"),
                           Notify(returned.cb, "UNABLE_TO_OPEN_INTERFACE")>>
     /\ returned.ret = "ok"
     /\ TornDown
     /\ ~management_.present

C6_Witness ==
  /\ returned.op = "initialize"
  /\ OpenedBad(returned.trace)
  /\ Has(returned.trace, Notify(returned.cb, "UNABLE_TO_OPEN_INTERFACE"))
  /\ mState = "READY"

(* C7: an initialize call that found the state READY and whose openHci     *)
(* succeeded returns ok exactly when it delivered the SUCCESS              *)
(* notification; it delivers it once, as the last thing it does, after     *)
(* the death registration of its callback, the construction of the codec,  *)
(* the watching of the descriptor and the change of the state to           *)
(* ONE_CLIENT, in that order; and the state is ONE_CLIENT, with the device *)
(* open and the codec in place, at the moment the call turns to sending    *)
(* the notification (the descriptor is watched then too, unless the        *)
(* device has disconnected since line 145).                                *)
SuccessTrace(fd, c, d) ==
  <<<<"openHci", fd, "">>, <<"LinkToDeath", c, "">>, Ev("H4Protocol"),
    Ev("WatchFdForNonBlockingReads"), Ev("ONE_CLIENT"), Notify(d, "SUCCESS")>>

C7_InitSuccess ==
  /\ []((returned.op = "initialize" /\ OpenedOk(returned.trace)) =>
          /\ returned.old_state = "READY"
          /\ (returned.ret = "ok") <=> HasEv(returned.trace, "initializationComplete")
          /\ returned.ret = "ok" =>
               \E fd \in OpenHciResults, d \in Callbacks :
                  /\ fd >= 0
                  /\ returned.trace = SuccessTrace(fd, returned.cb, d))
  /\ [][\A k \in BagToSet(calls') :
          (k.pc = "init_cb" /\ ~BagIn(k, calls)) =>
             mState' = "ONE_CLIENT" /\ DeviceOpen' /\ mH4']_vars

C7_Witness ==
  /\ returned.op = "initialize"
  /\ returned.ret = "ok"
  /\ returned.trace = SuccessTrace(0, returned.cb, returned.cb)
  /\ mState = "ONE_CLIENT"
  /\ DeviceOpen /\ mH4 /\ watching

(* C8: a close call that finds the state READY returns ok and changes      *)
(* nothing; one that finds ONE_CLIENT sets CLOSING, stops the watcher,     *)
(* releases the device, and drops the codec as it sets READY, in that      *)
(* order, and returns ok.                                                  *)
C8_Close ==
  /\ [](returned.op = "close" =>
          /\ returned.ret = "ok"
          /\ returned.trace \in {<<Ev("Already closed")>>, TeardownTrace}
          /\ returned.trace = TeardownTrace => TornDown)
  /\ [][(returned'.op = "close" /\ mState = "READY") =>
          /\ returned'.trace = <<Ev("Already closed")>>
          /\ UNCHANGED <<session, recipient, alive, calls, fatal>>]_vars
  /\ [][\A k \in BagToSet(calls') :
          (k.op = "close" /\ k.pc = "close_stop" /\ ~BagIn(k, calls)) =>
             mState = "ONE_CLIENT" /\ mState' = "CLOSING"]_vars

C8_Witness ==
  /\ returned.op = "close"
  /\ returned.trace = TeardownTrace
  /\ returned.ret = "ok"
  /\ TornDown

(* C9 (as claimed): an initialize call that found the state INITIALIZING,  *)
(* ONE_CLIENT or CLOSING does not end the process, and returns after       *)
(* reporting ALREADY_INITIALIZED without having opened the device.         *)
C9_InitNotIdle ==
  /\ (crashedIn.op = "initialize" => crashedIn.old_state = "READY")
  /\ (returned.op = "initialize" /\ returned.old_state # "READY") =>
        /\ returned.trace[Len(returned.trace)]
             = Notify(returned.cb, "ALREADY_INITIALIZED")
        /\ ~HasEv(returned.trace, "openHci")

(* C10 (as claimed): when initialize returns STATUS_FAILED_TRANSACTION the *)
(* session is torn down: the watcher stopped, the device released, the     *)
(* codec dropped and the state READY.                                      *)
C10_TxFailedTornDown ==
  returned.ret = "STATUS_FAILED_TRANSACTION" => TornDown

(* C11 (as claimed): when the watcher's thread finds the device            *)
(* disconnected it only stops watching, and a session that was ONE_CLIENT  *)
(* then is torn down: the state reaches READY with the device released     *)
(* (or the process has ended).                                             *)
C11_DisconnectTeardown ==
  /\ [][returned'.ret = "disconnected" =>
         ~watching' /\ UNCHANGED <<mState, mCb, mFd, management_, mH4, recipient>>]_vars
  /\ ((returned.ret = "disconnected" /\ mState = "ONE_CLIENT")
        ~> ((mState = "READY" /\ ~DeviceOpen) \/ ~Running))

(* C12: whatever packets with non-empty payloads are framed onto the wire, *)
(* in whatever chunks the wire is read, the codec completes exactly those  *)
(* packets, type and payload, in their order, each in the decode step that *)
(* reads its last byte; when the whole wire is read it has completed them  *)
(* all and holds no byte.                                                  *)
BytesRead == Len(Framed(frames)) - Len(wire)
RECURSIVE WholeFrames(_, _)
WholeFrames(fs, n) ==
  IF fs = <<>> \/ Len(Frame(fs[1].ty, fs[1].v)) > n THEN 0
  ELSE 1 + WholeFrames(Tail(fs), n - Len(Frame(fs[1].ty, fs[1].v)))

C12_RoundTrip ==
  /\ Len(decoded) = WholeFrames(frames, BytesRead)
  /\ decoded = SubSeq(frames, 1, Len(decoded))
  /\ wire = <<>> => (decoded = frames /\ h4buf = <<>>)

C12_Witness ==
  /\ wire = <<>>
  /\ Len(frames) = 2
  /\ frames[1].ty = "ACL_DATA" /\ frames[2].ty = "EVENT"
  /\ Len(frames[1].v) = 2 /\ Len(frames[2].v) = 2
  /\ decoded = frames

(* C13 (as claimed): once a session is over (the state is READY again and  *)
(* no call is in progress) no death registration is left on the binder of  *)
(* a live client.                                                          *)
C13_RegistrationReleased ==
  (mState = "READY" /\ calls = EmptyBag) =>
     \A c \in Callbacks : alive[c] => links[c] = 0

(* C14 (as claimed): when the caller never overlaps its initialize and     *)
(* close calls, close never ends the process for finding INITIALIZING,     *)
(* whenever the client dies and its death is notified.                     *)
C14_NoFatalInClose == crashed # "mState is INITIALIZING"

(* C15: at most one call at a time is between setting INITIALIZING and     *)
(* leaving it or between setting CLOSING and setting READY, and the state  *)
(* is INITIALIZING or CLOSING accordingly; and every closeHci releases a   *)
(* device that an openHci opened and no closeHci released yet.             *)
InInitBody(k) ==
  k.pc \in {"init_open", "init_fail", "init_link", "init_h4", "init_watch",
            "init_active"}
InCloseBody(k) == k.pc \in {"close_stop", "close_hci", "close_ready"}

C15_MutualExclusion ==
  /\ [](\A k1, k2 \in Busy :
          /\ InInitBody(k1) => mState = "INITIALIZING"
          /\ InCloseBody(k1) => mState = "CLOSING"
          /\ (InInitBody(k1) \/ InCloseBody(k1)) => CopiesIn(k1, calls) = 1
          /\ ((InInitBody(k1) \/ InCloseBody(k1))
                /\ (InInitBody(k2) \/ InCloseBody(k2))) => k1 = k2)
  /\ [][\A k \in BagToSet(calls') :
          (k.pc = "close_ready" /\ ~BagIn(k, calls)) =>
             DeviceOpen /\ ~DeviceOpen']_vars

C15_Witness ==
  /\ \E k \in Busy : k.op = "close" /\ k.pc = "close_hci"
  /\ \E k \in Busy : k.op = "initialize" /\ k.pc = "close_lock"
  /\ mState = "CLOSING"

(* C16 (as claimed): the codec exists exactly when the state is ONE_CLIENT. *)
C16_CodecIffActive == mH4 <=> (mState = "ONE_CLIENT")

(* C17: a packet that the codec completes goes to one callback of the      *)
(* member mCb, chosen by its type: ACL data to aclDataReceived, SCO data   *)
(* to scoDataReceived, an event to hciEventReceived, ISO data to           *)
(* isoDataReceived, with the payload it was completed with; a command      *)
(* packet goes to no callback and ends the process.                        *)
C17_Dispatch ==
  /\ [][\A ty \in InboundType, p \in Payloads \ {<<>>} :
          OnDataReady(ty, p) =>
            IF ty = "COMMAND"
              THEN crashed' = "Unexpected command!" /\ returned' = NoReturn
              ELSE /\ crashed' = "none"
                   /\ returned'.cb = mCb /\ returned'.v = p
                   /\ returned'.ret =
                        (CASE ty = "ACL_DATA" -> "aclDataReceived"
                           [] ty = "SCO_DATA" -> "scoDataReceived"
                           [] ty = "EVENT" -> "hciEventReceived"
                           [] ty = "ISO_DATA" -> "isoDataReceived")]_vars
  /\ [](crashed = "Unexpected command!" => crashedIn.op = "OnDataReady")
  /\ [](returned.op = "OnDataReady" /\ returned.ret # "disconnected" =>
          /\ returned.ptype # "COMMAND"
          /\ returned.ret \in {"aclDataReceived", "scoDataReceived",
                                "hciEventReceived", "isoDataReceived"})

C17_Witness ==
  /\ returned.op = "OnDataReady"
  /\ returned.ptype = "SCO_DATA"
  /\ returned.ret = "scoDataReceived"
  /\ returned.cb = mCb /\ mCb # NullCb
  /\ mState = "ONE_CLIENT"

(* C18 (as claimed): no step writes mState without holding mStateMutex.    *)
C18_WritesGuarded == mStateWrite # "unguarded"

(* C19 (as claimed): when a close call returns ok the state is READY and   *)
(* the device released. (A close call begins, here, with its critical      *)
(* section of lines 168-177; a call that returns from there has returned   *)
(* in the step it began in, and one that goes on sets READY in the step it *)
(* returns in: no initialize begins in between.)                           *)
C19_CloseReturnsIdle ==
  (returned.op = "close" /\ returned.ret = "ok") =>
     (mState = "READY" /\ ~DeviceOpen)

(* C20 (as claimed): a packet is handed to the client's callback only      *)
(* while the state is ONE_CLIENT.                                          *)
C20_DeliveredWhileActive ==
  (returned.op = "OnDataReady" /\ returned.ret # "disconnected") =>
     mState = "ONE_CLIENT"


(* ---------------- setCurrentUsbFunctions: claims ---------------------- *)
InUsbBody(t) ==
  usbCalls[t].pc \in {"teardown", "monitor_reset", "functions", "setup", "wait"}

(* C21: executions of setCurrentUsbFunctions never overlap. A call that   *)
(* is between its entry and its return (teardown, disconnect wait,        *)
(* VID/PID set-up, function set-up, wait for pull-up) holds               *)
(* mLockSetCurrentFunction, so no two calls are there together; and       *)
(* mCurrentUsbFunctions, the VID/PID and the monitor's running are        *)
(* changed only by a step of the call that holds the mutex, as is         *)
(* mCurrentUsbFunctionsApplied whenever a call changes it.                *)
C21_NoOverlap ==
  /\ [](\A t \in UsbThreads : InUsbBody(t) => mLockSetCurrentFunction = t)
  /\ [][(\/ mCurrentUsbFunctions' # mCurrentUsbFunctions
         \/ gadget'.vidpid # gadget.vidpid
         \/ gadget'.monitor # gadget.monitor
         \/ (mCurrentUsbFunctionsApplied' # mCurrentUsbFunctionsApplied
               /\ usbCalls' # usbCalls))
        => \E t \in UsbThreads :
             /\ usbCalls'[t] # usbCalls[t]
             /\ t \in {mLockSetCurrentFunction, mLockSetCurrentFunction'}
             /\ \A u \in UsbThreads \ {t} : ~InUsbBody(u)]_vars

(* One call waits for the pull-up while another waits for the mutex. *)
C21_Witness ==
  \E t, u \in UsbThreads :
    /\ t # u
    /\ UsbAt(t, "wait")
    /\ UsbAt(u, "lock")
    /\ mLockSetCurrentFunction = t

SuccessPaths == {"none", "immediate", "confirmed"}

(* C22: every setCurrentUsbFunctions call made with a callback has, when  *)
(* it returns, invoked setCurrentUsbFunctionsCb exactly once, with the    *)
(* functions it was given, whatever the path (teardown failure, NONE,     *)
(* unsupported combination, VID/PID or function set-up failure, immediate *)
(* pull-up, pull-up confirmed or timed out); and the status it reported   *)
(* is SUCCESS only if the functions are NONE, the gadget was pulled up    *)
(* at once, or the pull-up was confirmed within the timeout.              *)
C22_CallbackOnce ==
  (usbReturned.pc = "returned" /\ usbReturned.callback # NullCb) =>
    /\ Len(usbReturned.cbs) = 1
    /\ usbReturned.cbs[1].functions = usbReturned.functions
    /\ (usbReturned.cbs[1].status = "SUCCESS"
          => usbReturned.path \in SuccessPaths)
    /\ (usbReturned.path = "none" => usbReturned.functions = NONE)

(* A call with a callback returns after the monitor confirmed the pull-up. *)
C22_Witness ==
  /\ usbReturned.pc = "returned"
  /\ usbReturned.callback # NullCb
  /\ usbReturned.path = "confirmed"
  /\ usbReturned.cbs = <<Cb(usbReturned.functions, "SUCCESS")>>
  /\ gadget.pullup

====
